---------------------------- MODULE Spec2Model ----------------------------
(***************************************************************************)
(* Model of src/src/scripts/context_builder.py: the content truncator,     *)
(* the priority classifier, the file prioritizer, the exclusion policy,    *)
(* the tree walker, the directory-tree renderer, build and main.           *)
(*                                                                         *)
(* Python str values are TLA+ strings; Len, SubSeq and \o act on them as   *)
(* len(), slicing and + do in Python.  The module language has ASCII       *)
(* strings only, so the Cyrillic words of the two truncation markers are   *)
(* transliterated letter for letter (every length is kept):                *)
(*   fayl obrezan = "файл обрезан", pokazano = "показано", iz = "из",      *)
(*   strok = "строк", simvolov = "символов", skryto = "скрыто"             *)
(* and the tree glyphs are written "|-- " , "+-- ", "|   ", "D ", "F ".    *)
(* The fixed texts of the document of build are transliterated likewise,   *)
(* their pictograms written as one capital letter and the corner of the    *)
(* statistics line as "'- ".                                               *)
(***************************************************************************)
EXTENDS Integers, Sequences, FiniteSets, TLC

VARIABLES
    pc,             \* which call is in progress / finished
    content,        \* truncate_content: argument content
    max_lines,      \* truncate_content: argument max_lines
    max_chars,      \* truncate_content: argument max_chars
    result,         \* truncate_content: returned string
    file_path,      \* detect_file_priority: argument, as str(file_path)
    priority,       \* detect_file_priority: returned tier (its value)
    file_paths,     \* prioritize_files: argument
    prioritized,    \* prioritize_files: returned list
    root,           \* ContextBuilder.root, as str(self.root)
    fs,             \* the regular files below root, as root-relative paths
    scan_reverse,   \* the order in which the OS lists a directory
    custom_filters, \* ContextBuilder.custom_filters
    all_files,      \* the list the last call of _collect_all_files returned
    tree,           \* the text the last call of build_directory_tree returned
    arg_filename,   \* match_pattern: argument filename
    arg_pattern,    \* match_pattern: argument pattern
    matched,        \* match_pattern: returned bool
    file_texts,     \* what reading each regular file below root gives
    file_infos,     \* build: per index of the loop, the FileInfo made there
    doc_parts,      \* build: the list parts at the return statement
    document,       \* build: the returned string
    path_kind,      \* main: what args.path names
    add_exclude,    \* main: args.add_exclude
    no_truncate,    \* main: args.no_truncate
    exit_code,      \* main: the returned exit code, -1 before it returns
    arg_path,       \* _should_exclude: argument path, root-relative
    excluded,       \* _should_exclude: returned bool
    arg_node        \* build_tree: argument node

truncVars == <<content, max_lines, max_chars, result>>
classVars == <<file_path, priority>>
prioVars == <<file_paths, prioritized>>
builderVars == <<root, fs, scan_reverse, custom_filters, all_files, tree>>
matchVars == <<arg_filename, arg_pattern, matched>>
buildVars == <<file_texts, file_infos, doc_parts, document>>
mainVars == <<path_kind, add_exclude, no_truncate, exit_code>>
callVars == <<arg_path, excluded, arg_node>>

vars == <<pc, truncVars, classVars, prioVars, builderVars, matchVars,
          buildVars, mainVars, callVars>>

---------------------------------------------------------------------------
(* Bounds of the model *)

\* most lines of an input text
MaxInputLines == 5
\* largest max_lines tried
MaxMaxLines == 4
\* small values of max_chars: 0..MaxCharsLow
MaxCharsLow == 4
\* a value of max_chars between the input lengths and the marker lengths
MidChars == 20
\* a value of max_chars no output of the model reaches
HighChars == 200
\* most directory segments of a classified path
MaxDepth == 2
\* most paths in a list given to prioritize_files
MaxFiles == 3
\* most regular files of a project tree
MaxFsFiles == 2
\* most custom filters added to one builder
MaxFilters == 2
\* most characters of a generated file name given to match_pattern
MaxNameLen == 3
\* most characters of a generated pattern given to match_pattern
MaxPatLen == 3
\* most generated source files of a project given to main
MaxBulk == 51
\* most regular files of a project whose directories are rendered
MaxTreeFiles == 4

---------------------------------------------------------------------------
(* Python string primitives *)

\* s[i] (0-based in Python, 1-based here)
CharAt(s, i) == SubSeq(s, i, i)

\* sub in s
Contains(s, sub) ==
    \E i \in 0..(Len(s) - Len(sub)) : SubSeq(s, i + 1, i + Len(sub)) = sub

\* s.startswith(p)
StartsWith(s, p) == Len(p) <= Len(s) /\ SubSeq(s, 1, Len(p)) = p

\* s.endswith(p)
EndsWith(s, p) == Len(p) <= Len(s) /\ SubSeq(s, Len(s) - Len(p) + 1, Len(s)) = p

\* index of the first occurrence of the one-character string c in s, 0 if none
RECURSIVE FindFrom(_, _, _)
FindFrom(s, c, i) ==
    IF i > Len(s) THEN 0
    ELSE IF CharAt(s, i) = c THEN i
    ELSE FindFrom(s, c, i + 1)

\* s.split(sep) for a one-character separator: always at least one piece.
\* The string is taken by halves: the last piece of the left half and the
\* first piece of the right half are one piece
RECURSIVE Split(_, _)
Split(s, sep) ==
    IF Len(s) = 0 THEN <<"">>
    ELSE IF Len(s) = 1 THEN (IF s = sep THEN <<"", "">> ELSE <<s>>)
    ELSE LET half == Len(s) \div 2
             a    == Split(SubSeq(s, 1, half), sep)
             b    == Split(SubSeq(s, half + 1, Len(s)), sep)
         IN  SubSeq(a, 1, Len(a) - 1) \o <<a[Len(a)] \o b[1]>>
                 \o SubSeq(b, 2, Len(b))

\* sep.join(parts), the list taken by halves
RECURSIVE Join(_, _)
Join(parts, sep) ==
    IF Len(parts) = 0 THEN ""
    ELSE IF Len(parts) = 1 THEN parts[1]
    ELSE LET half == Len(parts) \div 2
         IN  Join(SubSeq(parts, 1, half), sep) \o sep
                 \o Join(SubSeq(parts, half + 1, Len(parts)), sep)

\* xs[:n] for n >= 0
SliceTo(xs, n) == SubSeq(xs, 1, IF n < Len(xs) THEN n ELSE Len(xs))

\* xs[-n:] for n >= 0: Python reads -0 as 0, so xs[-0:] is the whole list
SliceLast(xs, n) ==
    IF n = 0 THEN xs
    ELSE SubSeq(xs, (IF n < Len(xs) THEN Len(xs) - n ELSE 0) + 1, Len(xs))

\* the characters of the model's names, in code-point order
Ascii == "\n #-./0123456789ABCDEFGHIJKLMNOPQRSTUVWXYZ[]_abcdefghijklmnopqrstuvwxyz~"

\* the pairs <<c, d>> of characters with ord(c) < ord(d)
OrdPairs ==
    UNION {{<<CharAt(Ascii, i), CharAt(Ascii, j)>> : j \in (i + 1)..Len(Ascii)} :
              i \in 1..Len(Ascii)}

\* ord(c) < ord(d)
CharLess(c, d) == <<c, d>> \in OrdPairs

\* a < b for Python strings: by code point, a proper prefix first
RECURSIVE StrLess(_, _)
StrLess(a, b) ==
    IF Len(b) = 0 THEN FALSE
    ELSE IF Len(a) = 0 THEN TRUE
    ELSE IF CharAt(a, 1) = CharAt(b, 1)
         THEN StrLess(SubSeq(a, 2, Len(a)), SubSeq(b, 2, Len(b)))
         ELSE CharLess(CharAt(a, 1), CharAt(b, 1))

\* s.rfind(c) for a one-character c: 1-based index of the last one, 0 if none
RECURSIVE RFind(_, _, _)
RFind(s, c, i) ==
    IF i < 1 THEN 0
    ELSE IF CharAt(s, i) = c THEN i
    ELSE RFind(s, c, i - 1)

---------------------------------------------------------------------------
(* pathlib.PurePosixPath, on the string form of a normalised path *)

PathParts(path_str) == Split(path_str, "/")

\* Path.name
PathName(path_str) ==
    SubSeq(path_str, RFind(path_str, "/", Len(path_str)) + 1, Len(path_str))

\* Path.parent.name ("" for a path of one part)
PathParentName(path_str) ==
    LET parts == PathParts(path_str)
    IN  IF Len(parts) >= 2 THEN parts[Len(parts) - 1] ELSE ""

\* Path.suffix: from the last dot of the name, unless the dot is its first or
\* last character
PathSuffix(path_str) ==
    LET name == PathName(path_str)
        i    == RFind(name, ".", Len(name))
    IN  IF 1 < i /\ i < Len(name) THEN SubSeq(name, i, Len(name)) ELSE ""

---------------------------------------------------------------------------
(* FilePriority and detect_file_priority *)

CRITICAL == 100
HIGH == 80
MEDIUM == 50
LOW == 30
NOISE == 0

FilePriority == {CRITICAL, HIGH, MEDIUM, LOW, NOISE}

CriticalNames ==
    {"pyproject.toml", "README.md", "README.rst", "LICENSE", "MANIFEST.in"}

HighNames ==
    {"setup.py", "setup.cfg", "requirements.txt", "Pipfile",
     "docker-compose.yml", ".env.example", ".gitignore", ".dockerignore",
     ".pre-commit-config.yaml"}

\* line 142: the substrings that mark a core directory
CoreMarks == {"/src/", "/lib/", "/core/", "/main/", "/app/"}

\* line 142: any(part in path_str for part in [...])
InCoreDir(path_str) == \E part \in CoreMarks : Contains(path_str, part)

\* line 151
InUtilDir(path_str) ==
    \E part \in {"/utils/", "/helpers/", "/tools/", "/scripts/"} :
        Contains(path_str, part)

\* the documentation rule without its docs/ case
DocTier_flat(parent) == MEDIUM

\* lines 156-158
DocTier(parent) == IF parent \in {"docs", "documentation"} THEN LOW ELSE MEDIUM

\* lines 124-165
detect_file_priority(path_str) ==
    LET name   == PathName(path_str)
        parent == PathParentName(path_str)
        suffix == PathSuffix(path_str)
    IN  IF name \in CriticalNames THEN CRITICAL
        ELSE IF name \in HighNames THEN HIGH
        ELSE IF suffix = ".py" /\ InCoreDir(path_str)
                /\ ~Contains(name, "test") /\ ~Contains(path_str, "test")
        THEN HIGH
        ELSE IF suffix = ".py"
                /\ (\/ Contains(name, "test")
                    \/ Contains(path_str, "tests/")
                    \/ Contains(path_str, "/test_"))
        THEN MEDIUM
        ELSE IF suffix = ".py" /\ InUtilDir(path_str)
        THEN MEDIUM
        ELSE IF suffix \in {".md", ".rst", ".txt"}
        THEN DocTier(parent)
        ELSE IF suffix \in {".yml", ".yaml", ".json", ".toml", ".cfg", ".ini"}
        THEN MEDIUM
        ELSE NOISE

---------------------------------------------------------------------------
(* match_pattern and the exclusion policy *)

\* fnmatch.fnmatch(name, pat) on POSIX, for patterns of literals, * and ?
RECURSIVE fnmatch(_, _)
fnmatch(name, pat) ==
    IF Len(pat) = 0 THEN Len(name) = 0
    ELSE IF CharAt(pat, 1) = "*"
    THEN \/ fnmatch(name, SubSeq(pat, 2, Len(pat)))
         \/ (Len(name) > 0 /\ fnmatch(SubSeq(name, 2, Len(name)), pat))
    ELSE /\ Len(name) > 0
         /\ (CharAt(pat, 1) = "?" \/ CharAt(pat, 1) = CharAt(name, 1))
         /\ fnmatch(SubSeq(name, 2, Len(name)), SubSeq(pat, 2, Len(pat)))

\* lines 168-182
match_pattern(filename, pattern) ==
    IF pattern = filename THEN TRUE
    ELSE IF Contains(pattern, "*") THEN fnmatch(filename, pattern)
    ELSE IF StartsWith(pattern, ".") THEN EndsWith(filename, pattern)
    ELSE FALSE

\* ExclusionSet.dirs
ExclDirs ==
    {"__pycache__", ".git", ".svn", ".hg", ".idea", ".vscode",
     "node_modules", "venv", ".venv", "env", ".env",
     "dist", "build", "out", "target", "bin", "obj",
     ".pytest_cache", ".mypy_cache", ".ruff_cache", "coverage",
     "*.egg-info", ".cache"}

\* the file rules with a glob in place of the name Pipfile.lock
ExclFiles_pipfile_glob ==
    {".DS_Store", "Thumbs.db", "desktop.ini",
     "*.pyc", "*.pyo", "*.pyd", "*.so", "*.dll", "*.dylib",
     "*.class", "*.jar", "*.war", "*.ear",
     "*.log", "*.sqlite", "*.db", "*.sqlite3",
     "*.min.js", "*.min.css", "*.map",
     "package-lock.json", "yarn.lock", "pnpm-lock.yaml",
     "poetry.lock", "Pipfile*", "pip-delete-this-directory.txt"}

\* ExclusionSet.files
ExclFiles ==
    {".DS_Store", "Thumbs.db", "desktop.ini",
     "*.pyc", "*.pyo", "*.pyd", "*.so", "*.dll", "*.dylib",
     "*.class", "*.jar", "*.war", "*.ear",
     "*.log", "*.sqlite", "*.db", "*.sqlite3",
     "*.min.js", "*.min.css", "*.map",
     "package-lock.json", "yarn.lock", "pnpm-lock.yaml",
     "poetry.lock", "Pipfile.lock", "pip-delete-this-directory.txt"}

\* ExclusionSet.file_patterns
ExclFilePatterns ==
    {"*.pyc", "*.log", "*.tmp", "*.temp", "*.swp", "*.swo",
     "*.bak", "*.backup", "*~", "#*#", ".#*"}

\* ExclusionSet.extensions
ExclExtensions ==
    {".pyc", ".pyo", ".pyd", ".so", ".dll", ".dylib",
     ".class", ".jar", ".war", ".ear", ".log",
     ".min.js", ".min.css", ".map"}

\* root / rel
AbsPath(rt, rel) == rt \o "/" \o rel

\* Path.is_dir(): path is a directory of the tree fsys below rt
IsDir(fsys, rt, path) ==
    LET rel == SubSeq(path, Len(rt) + 2, Len(path)) \o "/"
    IN  \E f \in fsys : StartsWith(f, rel)

\* a custom filter's condition applied to a path: the closures the command
\* line builds (line 648, a glob on the base name) and a test of the whole path
EvalCondition(cond, path) ==
    IF cond.kind = "name_glob" THEN fnmatch(PathName(path), cond.arg)
    ELSE Contains(path, cond.arg)

\* candidate files of the project tree
FileUniverse ==
    {"README.md", "main.py", "src/core/node.py", "src/app.log",
     "src/core/__pycache__/keep.py", ".git/hooks/run.py",
     "pkg.egg-info/top.txt"}

\* the absolute paths of the project root
RootPool == {"/work/proj", "/srv/app/proj"}

\* conditions given to add_filter
ConditionPool ==
    {[kind |-> "name_glob", arg |-> "*.md"],
     [kind |-> "path_contains", arg |-> "/core"]}

\* the paths below a root that the walk of a project tree can meet
KnownPaths ==
    UNION {{AbsPath(rt, Join(SubSeq(PathParts(f), 1, k), "/")) :
               k \in 1..Len(PathParts(f))} :
           rt \in RootPool, f \in FileUniverse}

\* EvalCondition on the pooled conditions and known paths, evaluated once
ConditionTable ==
    {x \in ConditionPool \X KnownPaths : EvalCondition(x[1], x[2])}

\* filter_info["condition"](path)
CallCondition(cond, path) ==
    IF cond \in ConditionPool /\ path \in KnownPaths
    THEN <<cond, path>> \in ConditionTable
    ELSE EvalCondition(cond, path)

\* only the filter registered first is consulted
CustomExcludes_first(filters, path) ==
    Len(filters) > 0 /\ CallCondition(filters[1].condition, path)

\* lines 312-314
CustomExcludes(filters, path) ==
    \E i \in 1..Len(filters) : CallCondition(filters[i].condition, path)

\* lines 295-309: the default rules, on the base name of the path
DefaultRules(name, is_dir) ==
    IF is_dir
    THEN \E pattern \in ExclDirs : match_pattern(name, pattern)
    ELSE \/ \E pattern \in ExclFiles : match_pattern(name, pattern)
         \/ \E pattern \in ExclFilePatterns : fnmatch(name, pattern)
         \/ \E ext \in ExclExtensions : PathSuffix(name) = ext

\* the base names that occur in the project trees
KnownNames ==
    UNION {{PathParts(f)[i] : i \in 1..Len(PathParts(f))} : f \in FileUniverse}

\* DefaultRules on the known names, evaluated once
DefaultRulesTable ==
    {x \in KnownNames \X BOOLEAN : DefaultRules(x[1], x[2])}

\* lines 295-309
DefaultExcludes(path, is_dir) ==
    LET name == PathName(path)
    IN  IF name \in KnownNames
        THEN <<name, is_dir>> \in DefaultRulesTable
        ELSE DefaultRules(name, is_dir)

\* lines 292-316
should_exclude(fsys, rt, filters, path) ==
    \/ DefaultExcludes(path, IsDir(fsys, rt, path))
    \/ CustomExcludes(filters, path)

---------------------------------------------------------------------------
(* os.walk and _collect_all_files *)

RelJoin(d, c) == IF d = "" THEN c ELSE d \o "/" \o c

\* the first part of a relative path
FirstPart(rel) ==
    LET i == FindFrom(rel, "/", 1)
    IN  IF i = 0 THEN rel ELSE SubSeq(rel, 1, i - 1)

\* the names os.scandir finds in the root-relative directory d
ChildNames(fsys, d) ==
    LET pre == IF d = "" THEN "" ELSE d \o "/"
    IN  {FirstPart(SubSeq(f, Len(pre) + 1, Len(f))) :
            f \in {g \in fsys : StartsWith(g, pre)}}

\* a set of strings as a list in ascending order: the i-th element is the one
\* with i - 1 elements below it
SortedSeq(S) ==
    LET below == [x \in S |-> Cardinality({y \in S : StrLess(y, x)})]
    IN  [i \in 1..Cardinality(S) |-> CHOOSE x \in S : below[x] = i - 1]

Reverse(xs) == [i \in 1..Len(xs) |-> xs[Len(xs) + 1 - i]]

\* the listing of d in the order the OS gives
Listing(fsys, d, rev) ==
    IF rev THEN Reverse(SortedSeq(ChildNames(fsys, d)))
    ELSE SortedSeq(ChildNames(fsys, d))

\* the lists of a list one after the other, the list taken by halves
RECURSIVE Concat(_)
Concat(seqs) ==
    IF Len(seqs) = 0 THEN <<>>
    ELSE IF Len(seqs) = 1 THEN seqs[1]
    ELSE LET half == Len(seqs) \div 2
         IN  Concat(SubSeq(seqs, 1, half))
                 \o Concat(SubSeq(seqs, half + 1, Len(seqs)))

\* the walk keeping every subdirectory: files are filtered, nothing is pruned
KeptDirs_all(fsys, rt, filters, d, dirs) == dirs

\* line 330: dirs[:] = [d for d in dirs if not self._should_exclude(root_path / d)]
KeptDirs(fsys, rt, filters, d, dirs) ==
    LET Keep(c) == ~should_exclude(fsys, rt, filters, AbsPath(rt, RelJoin(d, c)))
    IN  SelectSeq(dirs, Keep)

\* lines 326-336: os.walk(top-down) from the root-relative directory d
RECURSIVE Walk(_, _, _, _, _)
Walk(fsys, rt, filters, rev, d) ==
    LET names     == Listing(fsys, d, rev)
        IsFile(c) == RelJoin(d, c) \in fsys
        IsSub(c)  == RelJoin(d, c) \notin fsys
        Keep(c)   == ~should_exclude(fsys, rt, filters, AbsPath(rt, RelJoin(d, c)))
        files     == SelectSeq(SelectSeq(names, IsFile), Keep)
        dirs      == KeptDirs(fsys, rt, filters, d, SelectSeq(names, IsSub))
    IN  [i \in 1..Len(files) |-> AbsPath(rt, RelJoin(d, files[i]))]
            \o Concat([i \in 1..Len(dirs) |->
                          Walk(fsys, rt, filters, rev, RelJoin(d, dirs[i]))])

\* lines 322-338
collect_all_files(fsys, rt, filters, rev) == Walk(fsys, rt, filters, rev, "")

---------------------------------------------------------------------------
(* build_directory_tree *)

\* sorted(xs) for a list of strings (repeated elements are kept)
SortStrings(xs) == SortSeq(xs, StrLess)

\* x in xs, for a list
InList(x, xs) == \E i \in 1..Len(xs) : xs[i] = x

\* structure.get(key, []): a defaultdict(list) is a function on its keys
GetList(structure, key) ==
    IF key \in DOMAIN structure THEN structure[key] ELSE <<>>

\* structure[key].append(child)
AppendChild(structure, key, child) ==
    [k \in DOMAIN structure \cup {key} |->
        IF k = key THEN Append(GetList(structure, key), child) ELSE structure[k]]

\* the steps of one path with every sub-directory appended, registered or not
RECURSIVE RegisterParts_always(_, _, _)
RegisterParts_always(structure, parts, i) ==
    IF i > Len(parts) - 1 THEN structure
    ELSE RegisterParts_always(
             AppendChild(structure, Join(SubSeq(parts, 1, i), "/"), parts[i + 1]),
             parts, i + 1)

\* lines 363-372, from step i on: the directories of one path and its file
RECURSIVE RegisterParts(_, _, _)
RegisterParts(structure, parts, i) ==
    IF i > Len(parts) - 1 THEN structure
    ELSE LET dir_path == Join(SubSeq(parts, 1, i), "/")
             child    == parts[i + 1]
         IN  IF i = Len(parts) - 1
             THEN AppendChild(structure, dir_path, child)
             ELSE RegisterParts(
                      IF InList(child, GetList(structure, dir_path))
                      THEN structure
                      ELSE AppendChild(structure, dir_path, child),
                      parts, i + 1)

\* lines 356-372: one file, by the parts of its root-relative path
RegisterFile(structure, parts) ==
    IF Len(parts) = 1
    THEN AppendChild(structure, ".", parts[1])
    ELSE RegisterParts(structure, parts, 1)

\* the value of F at the value v
With(v, F(_)) == CHOOSE r \in {F(w) : w \in {v}} : TRUE

\* lines 355-372 for the files at indices lo..hi of the list, in its order: the
\* iterations lo..mid, then the iterations mid+1..hi on what they left
RECURSIVE RegisterRange(_, _, _, _, _)
RegisterRange(structure, files, rt, lo, hi) ==
    IF lo > hi THEN structure
    ELSE IF lo = hi
    THEN RegisterFile(structure,
                      PathParts(SubSeq(files[lo], Len(rt) + 2, Len(files[lo]))))
    ELSE LET mid == (lo + hi) \div 2
         IN  With(RegisterRange(structure, files, rt, lo, mid),
                  LAMBDA st : RegisterRange(st, files, rt, mid + 1, hi))

\* lines 353-372: the structure after the files of the list, in its order
BuildStructure(files, rt) == RegisterRange(<<>>, files, rt, 1, Len(files))

DirIcon == "D "
FileIcon == "F "

\* lines 377-395: build_tree(node, prefix, is_last), the lines it appends
RECURSIVE build_tree(_, _, _, _)
build_tree(structure, node, prefix, is_last) ==
    LET children     == SortStrings(GetList(structure, node))
        child_prefix == prefix \o (IF is_last THEN "    " ELSE "|   ")
        Entry(i) ==
            LET child         == children[i]
                child_is_last == (i = Len(children))
                child_path    == IF node # "." THEN node \o "/" \o child ELSE child
                is_dir        == child_path \in DOMAIN structure
                                     \/ Contains(child, "/")
                icon          == IF is_dir THEN DirIcon ELSE FileIcon
                line          == IF node = "."
                                 THEN icon \o child
                                 ELSE prefix
                                        \o (IF is_last THEN "+-- " ELSE "|-- ")
                                        \o icon \o child
            IN  <<line>> \o (IF is_dir
                             THEN build_tree(structure, child_path,
                                             child_prefix, child_is_last)
                             ELSE <<>>)
    IN  Concat([i \in 1..Len(children) |-> Entry(i)])

\* lines 397-407: the entries of the root
RenderRoot(structure) ==
    IF "." \in DOMAIN structure
    THEN LET children == SortStrings(structure["."])
             Entry(i) ==
                 LET child  == children[i]
                     is_dir == child \in DOMAIN structure \/ Contains(child, "/")
                     icon   == IF is_dir THEN DirIcon ELSE FileIcon
                 IN  <<icon \o child>>
                         \o (IF is_dir
                             THEN build_tree(structure, child, "", FALSE)
                             ELSE <<>>)
         IN  Concat([i \in 1..Len(children) |-> Entry(i)])
    ELSE <<>>

\* lines 340-409
build_directory_tree(fsys, rt, filters, rev) ==
    Join(RenderRoot(BuildStructure(collect_all_files(fsys, rt, filters, rev), rt)),
         "\n")

---------------------------------------------------------------------------
(* prioritize_files *)

\* the key without the minus sign: ascending priority
KeyLess_ascending(x, y) == x[1] < y[1] \/ (x[1] = y[1] /\ StrLess(x[2], y[2]))

\* the sort key of line 421, (-x[0], x[1]), compared as Python compares tuples
KeyLess(x, y) == -x[1] < -y[1] \/ (-x[1] = -y[1] /\ StrLess(x[2], y[2]))

\* line 421: files_with_priority.sort(key=...); elements with equal keys are
\* equal pairs, so the stable order is the order by key
SortByKey(xs) == SortSeq(xs, KeyLess)

\* the sorted list without its last element
prioritize_files_short(paths) ==
    LET files_with_priority ==
            [i \in 1..Len(paths) |-> <<detect_file_priority(paths[i]), paths[i]>>]
        sorted == SortByKey(files_with_priority)
    IN  [i \in 1..(Len(sorted) - 1) |-> sorted[i][2]]

\* lines 411-423
prioritize_files(paths) ==
    LET files_with_priority ==
            [i \in 1..Len(paths) |-> <<detect_file_priority(paths[i]), paths[i]>>]
        sorted == SortByKey(files_with_priority)
    IN  [i \in 1..Len(sorted) |-> sorted[i][2]]

---------------------------------------------------------------------------
(* truncate_content *)

\* the inserted line marker (one element of the list that is joined)
LineMarker(half, total_lines) ==
    "\n[... fayl obrezan, pokazano " \o ToString(half * 2) \o " iz "
        \o ToString(total_lines) \o " strok ...]\n"

\* the appended character marker
CharMarker(content_len, maxc) ==
    "\n[... fayl obrezan, " \o ToString(content_len - maxc)
        \o " simvolov skryto ...]"

\* the text both markers begin with (after their leading newline)
MarkerPrefix == "[... fayl obrezan"

\* lines 106-115: the line-truncated text
LineTruncate(text, maxl) ==
    LET lines       == Split(text, "\n")
        total_lines == Len(lines)
    IN  IF total_lines > maxl
        THEN LET half       == maxl \div 2
                 first_part == SliceTo(lines, half)
                 last_part  == IF total_lines > half * 2
                               THEN SliceLast(lines, half) ELSE <<>>
                 truncated  == first_part \o <<LineMarker(half, total_lines)>>
                                   \o last_part
             IN  Join(truncated, "\n")
        ELSE text

\* CharTruncate keeping the last maxc characters instead of the first
CharTruncate_tail(res, text, maxc) ==
    IF Len(res) > maxc
    THEN SubSeq(res, Len(res) - maxc + 1, Len(res)) \o CharMarker(Len(text), maxc)
    ELSE res

\* CharTruncate testing the length of the original text, not of res
CharTruncate_orig(res, text, maxc) ==
    IF Len(text) > maxc
    THEN SubSeq(res, 1, maxc) \o CharMarker(Len(text), maxc)
    ELSE res

\* CharTruncate cutting without appending the marker
CharTruncate_silent(res, text, maxc) ==
    IF Len(res) > maxc THEN SubSeq(res, 1, maxc) ELSE res

\* lines 117-119: the character cut of the line-truncated text res
CharTruncate(res, text, maxc) ==
    IF Len(res) > maxc
    THEN SubSeq(res, 1, maxc) \o CharMarker(Len(text), maxc)
    ELSE res

\* truncate_content reading "at most" as "less than": a text exactly at a bound
\* is not returned early and the character cut is taken at len >= max_chars
truncate_content_strict(text, maxl, maxc) ==
    LET total_lines == Len(Split(text, "\n"))
        res         == LineTruncate(text, maxl)
    IN  IF total_lines < maxl /\ Len(text) < maxc
        THEN text
        ELSE IF Len(res) >= maxc
             THEN SubSeq(res, 1, maxc) \o CharMarker(Len(text), maxc)
             ELSE res

\* lines 87-121
truncate_content(text, maxl, maxc) ==
    LET total_lines == Len(Split(text, "\n"))
    IN  IF total_lines <= maxl /\ Len(text) <= maxc
        THEN text
        ELSE CharTruncate(LineTruncate(text, maxl), text, maxc)

---------------------------------------------------------------------------
(* _read_file, PythonFileAnalyzer.analyze, format_file_entry and build *)

\* the file cap of build
max_files == 50
\* the bounds build gives to truncate_content
build_max_lines == 100
build_max_chars == 5000

\* "=" * 40 and "-" * 40
EqualsRule == "========================================"
DashesRule == "----------------------------------------"

\* line 562: the separator appended after an entry
Separator == "\n" \o DashesRule \o "\n"

\* lines 425-431: texts[p] is what open/read gives for the root-relative
\* path p, None being a record that is not ok
read_file(texts, rel) == texts[rel]

\* "if content:" is false for None and for the empty string
Truthy(c) == c.ok /\ c.text # ""

\* content.strip() is not empty
RECURSIVE HasInk(_)
HasInk(text) ==
    IF Len(text) = 0 THEN FALSE
    ELSE IF CharAt(text, 1) \in {" ", "\n"} THEN HasInk(SubSeq(text, 2, Len(text)))
    ELSE TRUE

\* lines 195-197 and 444-456: the statistics of a text in which ast.walk
\* finds no import, class or function, so that only line_count is stated
StatsLine(text) == "'- " \o ToString(Len(Split(text, "\n"))) \o " strok"

\* lines 433-477: format_file_entry
format_file_entry(file_info) ==
    LET header == <<FileIcon \o file_info.relative_path>>
        stats  == IF file_info.analysed THEN <<StatsLine(file_info.source_text)>>
                  ELSE <<>>
        content_lines == Split(file_info.content, "\n")
        body   == IF HasInk(file_info.content)
                  THEN [i \in 1..Len(content_lines) |-> "   " \o content_lines[i]]
                  ELSE <<>>
    IN  Join(header \o stats \o body, "\n")

\* lines 538-555: the FileInfo of one file with content
MakeFileInfo(rt, file_str, text) ==
    [path          |-> AbsPath(rt, file_str),
     content       |-> truncate_content(text, build_max_lines, build_max_chars),
     relative_path |-> file_str,
     priority      |-> detect_file_priority(AbsPath(rt, file_str)),
     analysed      |-> PathSuffix(file_str) = ".py",
     source_text   |-> text]

\* line 526: [str(f.relative_to(self.root)) for f in all_files]
RelativeStrings(files, rt) ==
    [i \in 1..Len(files) |-> SubSeq(files[i], Len(rt) + 2, Len(files[i]))]

\* lines 536-555: per index of the list, the FileInfo record the loop makes
\* there, in a list that is empty where the file is skipped
LoopInfos(prioritized_, rt, texts) ==
    [i \in 1..Len(prioritized_) |->
        IF Truthy(read_file(texts, prioritized_[i]))
        THEN <<MakeFileInfo(rt, prioritized_[i],
                            read_file(texts, prioritized_[i]).text)>>
        ELSE <<>>]

\* lines 557-562: what the loop appends to parts, iteration by iteration
LoopParts(infos) ==
    Concat([i \in 1..Len(infos) |->
               IF Len(infos[i]) = 0 THEN <<>>
               ELSE <<format_file_entry(infos[i][1])>>
                        \o (IF i < Len(infos) THEN <<Separator>> ELSE <<>>)])

\* line 532
CapNotice(n) ==
    "S Pokazano " \o ToString(max_files) \o " iz " \o ToString(n)
        \o " faylov (ostalnye skryty)\n"

\* lines 564-586: the closing instructions
Instructions ==
    "\nTy vidish strukturu i soderzhanie proekta. Ispolzuy etu informatsiyu dlya:"
    \o "\n1. Ponimaniya arhitektury i zavisimostey"
    \o "\n2. Analiza sushchestvuyushchego koda"
    \o "\n3. Generatsii koda, kotoryy integriruetsya s proektom"
    \o "\n\nObrati vnimanie na:"
    \o "\n- Strukturu proekta (derevo vverhu)"
    \o "\n- Prioritetnye fayly (idut pervymi)"
    \o "\n- Analiz Python faylov (importy, klassy, funktsii)"
    \o "\n\nPri generatsii koda:"
    \o "\n1. Sleduy sushchestvuyushchim patternam"
    \o "\n2. Ispolzuy uzhe importirovannye moduli"
    \o "\n3. Podderzhivay stil koda proekta"
    \o "\n4. Uchityvay ogranicheniya proekta"
    \o "\n\nFayly otsortirovany po vazhnosti. Nachni s pervyh.\n"

\* lines 495-515: the parts before the file section, tree_ being the text
\* build_directory_tree returned
HeadParts(rt, tree_) ==
    <<EqualsRule,
      "KONTEKST PROEKTA: " \o PathName(rt),
      "Sobrano: ContextBuilder",
      EqualsRule,
      "\nT STRUKTURA PROEKTA:\n",
      tree_,
      "\n" \o EqualsRule,
      "D SODERJANIE FAYLOV:",
      EqualsRule \o "\n">>

\* lines 564-586: the parts after the file section
TailParts ==
    <<"\n" \o EqualsRule, "R KONTEKST DLYA II:", EqualsRule, Instructions>>

\* the file section with the notice from max_files files on
SectionParts_atcap(total, infos) ==
    IF total = 0
    THEN <<"X Fayly ne naydeny">>
    ELSE (IF total >= max_files THEN <<CapNotice(total)>> ELSE <<>>)
             \o LoopParts(infos)

\* lines 520-562: the parts of the file section, for a prioritized list of
\* total files and the FileInfo records of the loop
SectionParts(total, infos) ==
    IF total = 0
    THEN <<"X Fayly ne naydeny">>
    ELSE (IF total > max_files THEN <<CapNotice(total)>> ELSE <<>>)
             \o LoopParts(infos)

\* lines 479-588: the list parts at the return statement
build_parts(rt, tree_, total, infos) ==
    HeadParts(rt, tree_) \o SectionParts(total, infos) \o TailParts

---------------------------------------------------------------------------
(* Inputs of the truncator *)

\* lines of the input texts; none of their characters occurs in a marker
LinePool == {"", "x", "qq"}

InputLines == UNION {[1..n -> LinePool] : n \in 1..MaxInputLines}

InputTexts == {Join(ls, "\n") : ls \in InputLines}

MaxLinesValues == 0..MaxMaxLines

MaxCharsValues == (0..MaxCharsLow) \cup {MidChars, HighChars}

\* the state of the parts a specification does not exercise
IdleTrunc == content = "" /\ max_lines = 0 /\ max_chars = 0 /\ result = ""
IdleClass == file_path = "" /\ priority = NOISE
IdlePrio == file_paths = <<>> /\ prioritized = <<>>
IdleBuilder ==
    /\ root = "" /\ fs = {} /\ scan_reverse = FALSE
    /\ custom_filters = <<>> /\ all_files = <<>> /\ tree = ""
IdleMatch == arg_filename = "" /\ arg_pattern = "" /\ matched = FALSE
IdleBuild ==
    file_texts = <<>> /\ file_infos = <<>> /\ doc_parts = <<>> /\ document = ""
IdleMain ==
    path_kind = "" /\ add_exclude = <<>> /\ no_truncate = FALSE /\ exit_code = -1
IdleCall == arg_path = "" /\ excluded = FALSE /\ arg_node = ""

InitTrunc ==
    /\ pc = "start"
    /\ content \in InputTexts
    /\ max_lines \in MaxLinesValues
    /\ max_chars \in MaxCharsValues
    /\ result = ""
    /\ IdleClass /\ IdlePrio /\ IdleBuilder /\ IdleMatch
    /\ IdleBuild /\ IdleMain /\ IdleCall

\* one call truncate_content(content, max_lines, max_chars)
Truncate ==
    /\ pc = "start"
    /\ result' = truncate_content(content, max_lines, max_chars)
    /\ pc' = "truncated"
    /\ UNCHANGED <<content, max_lines, max_chars, classVars, prioVars, builderVars,
                   matchVars, buildVars, mainVars, callVars>>

NextTrunc == Truncate

SpecTrunc == InitTrunc /\ [][NextTrunc]_vars

---------------------------------------------------------------------------
(* Inputs of the classifier *)

DirPool ==
    {"src", "lib", "core", "main", "app", "tests", "docs", "utils", "pkg"}

NamePool ==
    {"pyproject.toml", "README.md", "setup.py", ".gitignore", "engine.py",
     "models.py", "test_engine.py", "latest.py", "guide.md", "conf.yml",
     "random.xyz", "Makefile"}

\* project-relative paths: up to MaxDepth directory segments and a file name
RelPaths ==
    {Join(ds \o <<n>>, "/") :
        ds \in UNION {[1..k -> DirPool] : k \in 0..MaxDepth}, n \in NamePool}

InitClass ==
    /\ pc = "start"
    /\ file_path \in RelPaths
    /\ priority = NOISE
    /\ IdleTrunc /\ IdlePrio /\ IdleBuilder /\ IdleMatch
    /\ IdleBuild /\ IdleMain /\ IdleCall

\* one call detect_file_priority(Path(file_path))
Classify ==
    /\ pc = "start"
    /\ priority' = detect_file_priority(file_path)
    /\ pc' = "classified"
    /\ UNCHANGED <<file_path, truncVars, prioVars, builderVars, matchVars,
                   buildVars, mainVars, callVars>>

NextClass == Classify

SpecClass == InitClass /\ [][NextClass]_vars

---------------------------------------------------------------------------
(* Inputs of the prioritizer *)

\* one path or more of every tier, some sharing a tier, one a prefix of another
PrioPool ==
    {"pyproject.toml", "README.md", ".gitignore", "pkg/core/node.py",
     "pkg/core/node.pyx", "tests/test_node.py", "docs/notes.md",
     "build/script.js", "Makefile"}

InitPrio ==
    /\ pc = "start"
    /\ file_paths \in UNION {[1..n -> PrioPool] : n \in 0..MaxFiles}
    /\ prioritized = <<>>
    /\ IdleTrunc /\ IdleClass /\ IdleBuilder /\ IdleMatch
    /\ IdleBuild /\ IdleMain /\ IdleCall

\* one call prioritize_files(file_paths)
Prioritize ==
    /\ pc = "start"
    /\ prioritized' = prioritize_files(file_paths)
    /\ pc' = "prioritized"
    /\ UNCHANGED <<file_paths, truncVars, classVars, builderVars, matchVars,
                   buildVars, mainVars, callVars>>

NextPrio == Prioritize

SpecPrio == InitPrio /\ [][NextPrio]_vars

---------------------------------------------------------------------------
(* The builder: a project tree, add_filter, _collect_all_files,            *)
(* build_directory_tree                                                    *)

FsChoices == {S \in SUBSET FileUniverse : Cardinality(S) <= MaxFsFiles}

\* the text of the regular file f of a project tree
ProjectText(f) == [ok |-> TRUE, text |-> "# " \o PathName(f)]

\* ContextBuilder.__init__ (lines 272-277) on a project tree
Init ==
    /\ pc = "ready"
    /\ root \in RootPool
    /\ fs \in FsChoices
    /\ scan_reverse \in BOOLEAN
    /\ custom_filters = <<>>
    /\ all_files = <<>>
    /\ tree = ""
    /\ file_texts = [f \in fs |-> ProjectText(f)]
    /\ file_infos = <<>> /\ doc_parts = <<>> /\ document = ""
    /\ IdleTrunc /\ IdleClass /\ IdlePrio /\ IdleMatch /\ IdleMain /\ IdleCall

\* add_filter that replaces the list by the new entry
AddFilter_replace(cond) ==
    /\ pc = "ready"
    /\ Len(custom_filters) < MaxFilters
    /\ custom_filters' = <<[name |-> "custom_" \o cond.arg, condition |-> cond]>>
    /\ UNCHANGED <<pc, root, fs, scan_reverse, all_files, tree, file_texts,
                   file_infos, doc_parts, document,
                   truncVars, classVars, prioVars, matchVars, mainVars,
                   callVars>>

\* add_filter(name, condition), lines 288-290
AddFilter(cond) ==
    /\ pc = "ready"
    /\ Len(custom_filters) < MaxFilters
    /\ custom_filters' =
          Append(custom_filters,
                 [name |-> "custom_" \o cond.arg, condition |-> cond])
    /\ UNCHANGED <<pc, root, fs, scan_reverse, all_files, tree, file_texts,
                   file_infos, doc_parts, document,
                   truncVars, classVars, prioVars, matchVars, mainVars,
                   callVars>>

\* _collect_all_files(), lines 322-338
CollectAllFiles ==
    /\ pc = "ready"
    /\ all_files' = collect_all_files(fs, root, custom_filters, scan_reverse)
    /\ pc' = "collected"
    /\ UNCHANGED <<root, fs, scan_reverse, custom_filters, tree, file_texts,
                   file_infos, doc_parts, document,
                   truncVars, classVars, prioVars, matchVars, mainVars,
                   callVars>>

\* build_directory_tree(), lines 340-409
BuildDirectoryTree ==
    /\ pc = "ready"
    /\ tree' = build_directory_tree(fs, root, custom_filters, scan_reverse)
    /\ pc' = "tree"
    /\ UNCHANGED <<root, fs, scan_reverse, custom_filters, all_files,
                   file_texts, file_infos, doc_parts, document,
                   truncVars, classVars, prioVars, matchVars, mainVars,
                   callVars>>

\* prioritize_files(file_strings) on the files of the project, as build calls
\* it at lines 521-527
PrioritizeFiles ==
    /\ pc = "ready"
    /\ all_files' = collect_all_files(fs, root, custom_filters, scan_reverse)
    /\ file_paths' = RelativeStrings(all_files', root)
    /\ prioritized' = prioritize_files(file_paths')
    /\ pc' = "prioritized"
    /\ UNCHANGED <<root, fs, scan_reverse, custom_filters, tree, buildVars,
                   truncVars, classVars, matchVars, mainVars, callVars>>

\* build(), lines 479-588, its local variables in the order it assigns them
Build ==
    /\ pc = "ready"
    /\ tree' = build_directory_tree(fs, root, custom_filters, scan_reverse)
    /\ all_files' = collect_all_files(fs, root, custom_filters, scan_reverse)
    /\ file_paths' = RelativeStrings(all_files', root)
    /\ prioritized' = SliceTo(prioritize_files(file_paths'), max_files)
    /\ file_infos' = LoopInfos(prioritized', root, file_texts)
    /\ doc_parts' = build_parts(root, tree', Len(file_paths'), file_infos')
    /\ document' = Join(doc_parts', "\n")
    /\ pc' = "built"
    /\ UNCHANGED <<root, fs, scan_reverse, custom_filters, file_texts,
                   truncVars, classVars, matchVars, mainVars, callVars>>

\* the caller has taken the value a call returned
Return ==
    /\ pc \in {"collected", "tree", "prioritized", "built"}
    /\ pc' = "ready"
    /\ all_files' = <<>> /\ tree' = ""
    /\ file_paths' = <<>> /\ prioritized' = <<>>
    /\ file_infos' = <<>> /\ doc_parts' = <<>> /\ document' = ""
    /\ UNCHANGED <<root, fs, scan_reverse, custom_filters, file_texts,
                   truncVars, classVars, matchVars, mainVars, callVars>>

Next ==
    \/ \E cond \in ConditionPool : AddFilter(cond)
    \/ CollectAllFiles
    \/ BuildDirectoryTree
    \/ PrioritizeFiles
    \/ Build
    \/ Return

Spec == Init /\ [][Next]_vars

---------------------------------------------------------------------------
(* Inputs of match_pattern *)

\* the strings of at most n characters of the alphabet A
RECURSIVE StringsUpTo(_, _)
StringsUpTo(A, n) ==
    IF n = 0 THEN {""}
    ELSE LET S == StringsUpTo(A, n - 1)
         IN  S \cup {w \o a : w \in S, a \in A}

\* file names: generated ones, and two with a suffix
MatchNames ==
    (StringsUpTo({"a", "b", "c"}, MaxNameLen) \ {""}) \cup {".abc", "x.log"}

\* patterns: literals and the two wildcards, and dot-prefixed entries
MatchPatterns ==
    (StringsUpTo({"a", "c", "?", "*"}, MaxPatLen) \ {""}) \cup {".log", ".abc"}

InitMatch ==
    /\ pc = "start"
    /\ arg_filename \in MatchNames
    /\ arg_pattern \in MatchPatterns
    /\ matched = FALSE
    /\ IdleTrunc /\ IdleClass /\ IdlePrio /\ IdleBuilder
    /\ IdleBuild /\ IdleMain /\ IdleCall

\* one call match_pattern(filename, pattern)
MatchPattern ==
    /\ pc = "start"
    /\ matched' = match_pattern(arg_filename, arg_pattern)
    /\ pc' = "matched"
    /\ UNCHANGED <<arg_filename, arg_pattern, truncVars, classVars, prioVars,
                   builderVars, buildVars, mainVars, callVars>>

NextMatch == MatchPattern

SpecMatch == InitMatch /\ [][NextMatch]_vars

---------------------------------------------------------------------------
(* Inputs of main: the command line and the project on disk *)

\* a text of one line more than build passes to truncate_content
LongText == Join([i \in 1..(build_max_lines + 1) |-> "y"], "\n")

\* what reading one file gives: an error, nothing, a short text, a long text
MainTexts ==
    {[ok |-> FALSE, text |-> ""], [ok |-> TRUE, text |-> ""],
     [ok |-> TRUE, text |-> "x = 1"], [ok |-> TRUE, text |-> LongText]}

\* files of the three ranks a small project mixes: first, second and last of
\* the prioritized list
NamedFiles == {"README.md", "setup.py", "notes.dat"}

\* the i-th generated source file
BulkName(i) == "m" \o (IF i < 10 THEN "0" ELSE "") \o ToString(i) \o ".py"

\* small projects: any of the named files, each with any reading
SmallProjects == UNION {[S -> MainTexts] : S \in SUBSET NamedFiles}

\* what stands before the generated files of a large project
LargeHeads == {<<>>, [f \in {"README.md"} |-> [ok |-> TRUE, text |-> ""]]}

\* large projects: about max_files generated files after an optional README.md
LargeProjects ==
    {[f \in {BulkName(i) : i \in 1..n} \cup DOMAIN head |->
         IF f \in DOMAIN head THEN head[f] ELSE ProjectText(f)] :
        n \in (MaxBulk - 2)..MaxBulk, head \in LargeHeads}

\* the values of --add-exclude
ExcludeChoices == {<<>>, <<"*.md">>}

InitMain ==
    /\ pc = "start"
    /\ no_truncate \in BOOLEAN
    /\ \/ /\ path_kind = "dir"
          /\ root \in RootPool
          /\ file_texts \in SmallProjects
          /\ add_exclude \in ExcludeChoices
          /\ scan_reverse \in BOOLEAN
       \/ /\ path_kind = "dir"
          /\ root = "/work/proj"
          /\ file_texts \in LargeProjects
          /\ add_exclude = <<>>
          /\ scan_reverse = FALSE
       \/ /\ path_kind \in {"missing", "file"}
          /\ root \in RootPool
          /\ file_texts = <<>>
          /\ add_exclude \in ExcludeChoices
          /\ scan_reverse = FALSE
    /\ fs = DOMAIN file_texts
    /\ custom_filters = <<>> /\ all_files = <<>> /\ tree = ""
    /\ file_infos = <<>> /\ doc_parts = <<>> /\ document = ""
    /\ exit_code = -1
    /\ IdleTrunc /\ IdleClass /\ IdlePrio /\ IdleMatch /\ IdleCall

\* lines 647-648: the filters main adds, one per --add-exclude pattern
MainFilters(patterns) ==
    [i \in 1..Len(patterns) |->
        [name |-> "custom_" \o patterns[i],
         condition |-> [kind |-> "name_glob", arg |-> patterns[i]]]]

\* lines 642-674: one run of the command without -o and -v. A root that is
\* missing or a regular file is walked like an empty directory; nothing in
\* lines 644-656 raises for these inputs, so line 674 returns 0
Main ==
    /\ pc = "start"
    /\ custom_filters' = MainFilters(add_exclude)
    /\ tree' = build_directory_tree(fs, root, custom_filters', scan_reverse)
    /\ all_files' = collect_all_files(fs, root, custom_filters', scan_reverse)
    /\ file_paths' = RelativeStrings(all_files', root)
    /\ prioritized' = SliceTo(prioritize_files(file_paths'), max_files)
    /\ file_infos' = LoopInfos(prioritized', root, file_texts)
    /\ doc_parts' = build_parts(root, tree', Len(file_paths'), file_infos')
    /\ document' = Join(doc_parts', "\n")
    /\ exit_code' = 0
    /\ pc' = "exited"
    /\ UNCHANGED <<root, fs, scan_reverse, file_texts, path_kind, add_exclude,
                   no_truncate, truncVars, classVars, matchVars, callVars>>

NextMain == Main

SpecMain == InitMain /\ [][NextMain]_vars

---------------------------------------------------------------------------
(* Inputs of _should_exclude *)

\* base names: those the classifier ranks CRITICAL or HIGH, and names the
\* default rules are written for
ProbeNames ==
    CriticalNames \cup HighNames
        \cup {".env", "Pipfile.lock", "app.log", ".DS_Store", "build", "notes.txt"}

\* the directories the probed path lies in, as prefixes of its relative path
ProbeDirs == {"", "src/", "pkg/core/"}

InitExclude ==
    /\ pc = "start"
    /\ root \in RootPool
    /\ arg_path \in {d \o n : d \in ProbeDirs, n \in ProbeNames}
    /\ fs \in {{arg_path}, {arg_path \o "/keep.py"}}
    /\ excluded = FALSE
    /\ arg_node = ""
    /\ scan_reverse = FALSE /\ custom_filters = <<>>
    /\ all_files = <<>> /\ tree = ""
    /\ IdleTrunc /\ IdleClass /\ IdlePrio /\ IdleMatch
    /\ IdleBuild /\ IdleMain

\* one call _should_exclude(root / arg_path) of a builder without custom
\* filters; the path is a regular file or a directory of the project
ShouldExclude ==
    /\ pc = "start"
    /\ excluded' = should_exclude(fs, root, custom_filters, AbsPath(root, arg_path))
    /\ pc' = "checked"
    /\ UNCHANGED <<arg_path, arg_node, truncVars, classVars, prioVars,
                   builderVars, matchVars, buildVars, mainVars>>

NextExclude == ShouldExclude

SpecExclude == InitExclude /\ [][NextExclude]_vars

---------------------------------------------------------------------------
(* Inputs of build_tree *)

\* candidate files of a project with directories at two depths
TreeUniverse ==
    {"README.md", "src/a.py", "src/b.py", "src/core/node.py",
     "src/core/util.py", "src/zeta/z.py"}

\* the directories of a project
DirsOf(fsys) ==
    UNION {{Join(SubSeq(PathParts(f), 1, k), "/") :
               k \in 1..(Len(PathParts(f)) - 1)} : f \in fsys}

InitTree ==
    /\ pc = "start"
    /\ root \in RootPool
    /\ fs \in {S \in SUBSET TreeUniverse : Cardinality(S) <= MaxTreeFiles}
    /\ scan_reverse \in BOOLEAN
    /\ arg_node \in DirsOf(fs)
    /\ custom_filters = <<>> /\ all_files = <<>> /\ tree = ""
    /\ arg_path = "" /\ excluded = FALSE
    /\ IdleTrunc /\ IdleClass /\ IdlePrio /\ IdleMatch
    /\ IdleBuild /\ IdleMain

\* lines 353-395: the structure is built from the collected files, and
\* build_tree(node, "", False) is called for a directory of it, as line 407
\* calls it; tree is the lines of that call, joined
BuildTree ==
    /\ pc = "start"
    /\ all_files' = collect_all_files(fs, root, custom_filters, scan_reverse)
    /\ tree' = Join(build_tree(BuildStructure(all_files', root), arg_node,
                               "", FALSE), "\n")
    /\ pc' = "rendered"
    /\ UNCHANGED <<root, fs, scan_reverse, custom_filters, arg_node, arg_path,
                   excluded, truncVars, classVars, prioVars, matchVars,
                   buildVars, mainVars>>

NextTree == BuildTree

SpecTree == InitTree /\ [][NextTree]_vars

---------------------------------------------------------------------------
(* Claims about the tree walker and the tree renderer *)

\* the directories strictly between rt and the absolute path p
AncestorDirs(rt, p) ==
    LET parts == PathParts(SubSeq(p, Len(rt) + 2, Len(p)))
    IN  {AbsPath(rt, Join(SubSeq(parts, 1, k), "/")) : k \in 1..(Len(parts) - 1)}

\* C1: no file returned by _collect_all_files has an ancestor directory below
\* the root that _should_exclude excludes.
C1_Pruning ==
    pc = "collected" =>
        \A i \in 1..Len(all_files) :
            \A d \in AncestorDirs(root, all_files[i]) :
                ~should_exclude(fs, root, custom_filters, d)

\* C1 witness: files that no file rule excludes lie beneath an excluded
\* directory, directly and two levels down, and the walk returns neither
C1_Witness ==
    /\ pc = "collected"
    /\ fs = {".git/hooks/run.py", "main.py"}
    /\ ~should_exclude(fs, root, custom_filters, AbsPath(root, ".git/hooks/run.py"))
    /\ ~should_exclude(fs, root, custom_filters, AbsPath(root, ".git/hooks"))
    /\ should_exclude(fs, root, custom_filters, AbsPath(root, ".git"))
    /\ all_files = <<AbsPath(root, "main.py")>>

\* the lines of the rendered tree
treeLines == IF tree = "" THEN <<>> ELSE Split(tree, "\n")

\* the files the walker returns in the current state, root-relative
includedFiles ==
    LET files == collect_all_files(fs, root, custom_filters, scan_reverse)
    IN  {SubSeq(files[i], Len(root) + 2, Len(files[i])) : i \in 1..Len(files)}

\* lines has, in this order and each deeper indented than the one before,
\* one line per part of the path, each naming its part
RenderedNested(lines, parts) ==
    \E ks \in [1..Len(parts) -> 1..Len(lines)] :
        /\ \A j \in 1..Len(parts) : EndsWith(lines[ks[j]], " " \o parts[j])
        /\ \A j \in 1..(Len(parts) - 1) :
              /\ ks[j] < ks[j + 1]
              /\ Len(lines[ks[j]]) - Len(parts[j])
                    < Len(lines[ks[j + 1]]) - Len(parts[j + 1])

\* C2 as stated: every file the walker returns is rendered, below one line for
\* each of its ancestor directories, with indentation growing with depth.
C2_EveryFileRendered ==
    pc = "tree" =>
        \A f \in includedFiles : RenderedNested(treeLines, PathParts(f))

---------------------------------------------------------------------------
(* Claims about detect_file_priority and prioritize_files *)

\* number of positions of xs that hold x
Count(xs, x) == Cardinality({i \in 1..Len(xs) : xs[i] = x})

\* a <= b for Python strings
StrLeq(a, b) == a = b \/ StrLess(a, b)

\* C3: prioritize_files returns a reordering of exactly the input elements,
\* by descending tier and, within a tier, ascending path.
C3_SortedPermutation ==
    pc = "prioritized" =>
        /\ Len(prioritized) = Len(file_paths)
        /\ \A x \in PrioPool : Count(prioritized, x) = Count(file_paths, x)
        /\ \A i, j \in 1..Len(prioritized) :
              i < j =>
                LET ti == detect_file_priority(prioritized[i])
                    tj == detect_file_priority(prioritized[j])
                IN  ti > tj \/ (ti = tj /\ StrLeq(prioritized[i], prioritized[j]))

\* C3 witness: an unsorted list with a repeated path and a tie within a tier
C3_Witness ==
    /\ pc = "prioritized"
    /\ file_paths = <<"tests/test_node.py", "docs/notes.md", "tests/test_node.py">>
    /\ prioritized = <<"tests/test_node.py", "tests/test_node.py", "docs/notes.md">>

\* C4: the five classifier scenarios, and totality.
C4_Scenarios ==
    pc = "classified" =>
        /\ priority \in FilePriority
        /\ file_path = "pyproject.toml" => priority = CRITICAL
        /\ file_path = "src/core/engine.py" => priority = HIGH
        /\ file_path = "tests/test_engine.py" => priority = MEDIUM
        /\ file_path = "docs/guide.md" => priority = LOW
        /\ file_path = "random.xyz" => priority = NOISE

\* C4 witness: the LOW scenario has been classified
C4_Witness ==
    pc = "classified" /\ file_path = "docs/guide.md" /\ priority = LOW

\* the path has a directory segment (not its base name) named seg
HasDirSegment(path_str, seg) ==
    LET parts == PathParts(path_str)
    IN  \E i \in 1..(Len(parts) - 1) : parts[i] = seg

\* C5: a .py path with a directory segment src, lib, core, main or app at
\* any position, the first included, and without 'test' in it, is HIGH.
C5_CoreSegmentIsHigh ==
    (/\ pc = "classified"
     /\ PathSuffix(file_path) = ".py"
     /\ \E seg \in {"src", "lib", "core", "main", "app"} :
            HasDirSegment(file_path, seg)
     /\ ~Contains(file_path, "test"))
        => priority = HIGH

---------------------------------------------------------------------------
(* Claims about truncate_content *)

inLines == Split(content, "\n")
inHalf == max_lines \div 2

\* C6: a text with at most max_lines lines and at most max_chars characters
\* is returned unchanged, character for character.
C6_Identity ==
    (pc = "truncated" /\ Len(inLines) <= max_lines /\ Len(content) <= max_chars)
        => result = content

\* C6 witness: a text of several lines that is exactly at the character bound
C6_Witness ==
    /\ pc = "truncated"
    /\ Len(inLines) = max_lines /\ Len(inLines) >= 2
    /\ Len(content) = max_chars
    /\ result = content

C8_HeadMarkerTail ==
    (pc = "truncated" /\ Len(inLines) > max_lines /\ max_chars = HighChars)
        => result = Join(SubSeq(inLines, 1, inHalf)
                            \o <<LineMarker(inHalf, Len(inLines))>>
                            \o SubSeq(inLines, Len(inLines) - inHalf + 1,
                                      Len(inLines)),
                         "\n")

\* C9: the result is never longer than max_chars plus the character marker.
C9_LengthBound ==
    pc = "truncated"
        => Len(result) <= max_chars + Len(CharMarker(Len(content), max_chars))

\* C9 witness: a line-truncated text that is cut and reaches the bound
C9_Witness ==
    /\ pc = "truncated"
    /\ Len(inLines) > max_lines
    /\ max_chars > 0
    /\ Len(result) = max_chars + Len(CharMarker(Len(content), max_chars))

\* C10: a result that differs from the input contains a truncation marker.
C10_NeverSilent ==
    (pc = "truncated" /\ result # content) => Contains(result, MarkerPrefix)

\* C10 witness: the character cut has removed the inserted line marker
C10_Witness ==
    /\ pc = "truncated"
    /\ Len(inLines) > max_lines
    /\ result # content
    /\ ~Contains(SubSeq(result, 1, max_chars), MarkerPrefix)
    /\ Contains(result, MarkerPrefix)


---------------------------------------------------------------------------
(* Claims about match_pattern and the exclusion policy *)

\* C11 as stated: a pattern that contains a glob wildcard, * or ?, is matched
\* as a shell glob over the full name, so match_pattern('abc', 'a?c') is true.
C11_WildcardsAreGlobs ==
    (pc = "matched" /\ (Contains(arg_pattern, "*") \/ Contains(arg_pattern, "?")))
        => (matched = fnmatch(arg_filename, arg_pattern))

\* the lists that hold the entries of xs in some order
Reorderings(xs) ==
    {[i \in 1..Len(xs) |-> xs[p[i]]] : p \in Permutations(1..Len(xs))}

\* the elements of a list
Elements(xs) == {xs[i] : i \in 1..Len(xs)}

ProjectPaths(fsys, rt) ==
    UNION {{AbsPath(rt, Join(SubSeq(PathParts(f), 1, k), "/")) :
               k \in 1..Len(PathParts(f))} : f \in fsys}

\* C13: in every step of a builder (add_filter, _collect_all_files,
\* build_directory_tree, prioritize_files, build) the custom-filter list keeps
\* its entries in place and at most gains entries at its end; and unless the
\* step leaves the project and the filters as they were, every path excluded
\* before it is excluded after it and _collect_all_files returns no file it
\* would not have returned before.  The default rule sets are fixed
\* definitions of the model: no step has them in its reach.
C13_AdditiveOnly ==
    [][/\ Len(custom_filters') >= Len(custom_filters)
       /\ SubSeq(custom_filters', 1, Len(custom_filters)) = custom_filters
       /\ \/ <<root, fs, scan_reverse, custom_filters>>'
                 = <<root, fs, scan_reverse, custom_filters>>
          \/ /\ root' = root /\ fs' = fs
             /\ \A q \in ProjectPaths(fs, root) :
                   should_exclude(fs, root, custom_filters, q)
                       => should_exclude(fs', root', custom_filters', q)
             /\ Elements(collect_all_files(fs', root', custom_filters',
                                           scan_reverse'))
                   \subseteq Elements(collect_all_files(fs, root, custom_filters,
                                                       scan_reverse))]_vars

\* C13 witness: after two calls of add_filter and a call of build, the set
\* _collect_all_files returns is smaller than it was before the filters
C13_Witness ==
    /\ pc = "built"
    /\ Len(custom_filters) = 2
    /\ Elements(collect_all_files(fs, root, custom_filters, scan_reverse))
          # Elements(collect_all_files(fs, root, <<>>, scan_reverse))
    /\ Elements(collect_all_files(fs, root, custom_filters, scan_reverse))
          \subseteq Elements(collect_all_files(fs, root, <<>>, scan_reverse))

---------------------------------------------------------------------------
(* Claims about prioritize_files, second part *)

\* C17: prioritize_files is idempotent: given the list it returned for any
\* list, it returns that list again.
C17_Idempotent ==
    pc = "prioritized" => prioritize_files(prioritized) = prioritized

\* C17 witness: a list of three different paths that is not in prioritized
\* order has been prioritized, and prioritizing the result changes nothing
C17_Witness ==
    /\ pc = "prioritized"
    /\ Len(file_paths) >= 3
    /\ \A i, j \in 1..Len(file_paths) : i # j => file_paths[i] # file_paths[j]
    /\ prioritized # file_paths
    /\ prioritize_files(prioritized) = prioritized

---------------------------------------------------------------------------
(* Claims about build and main *)

\* the parts of the document between the section title and the closing block
FileSection ==
    SubSeq(doc_parts, Len(HeadParts(root, tree)) + 1,
           Len(doc_parts) - Len(TailParts))

IsEntry(part) == StartsWith(part, FileIcon)
IsRule(part) == part = Separator
IsNotice(part) == StartsWith(part, "S Pokazano ")

\* the path in the header line of an entry
EntryPath(part) ==
    LET header == Split(part, "\n")[1]
    IN  SubSeq(header, Len(FileIcon) + 1, Len(header))

\* the paths of the embedded entries, in the order of the document
EmbeddedPaths ==
    LET entries == SelectSeq(FileSection, IsEntry)
    IN  [i \in 1..Len(entries) |-> EntryPath(entries[i])]

\* the position of x in the list xs, 0 if it is not there
PositionIn(x, xs) ==
    IF \E i \in 1..Len(xs) : xs[i] = x
    THEN CHOOSE i \in 1..Len(xs) : xs[i] = x
    ELSE 0

\* C14: in the document of a finished run at most 50 files are embedded; each
\* embedded entry is a file at one of the first 50 positions of the
\* prioritized list, the entries stand in the order of that list, and the
\* section has a notice exactly if the list has N > 50 files, the notice then
\* being the one that says 50 of N.
C14_CapAndNotice ==
    pc = "exited" =>
        LET full    == prioritize_files(file_paths)
            at(i)   == PositionIn(EmbeddedPaths[i], full)
            notices == SelectSeq(FileSection, IsNotice)
        IN  /\ Len(EmbeddedPaths) <= 50
            /\ \A i \in 1..Len(EmbeddedPaths) : at(i) \in 1..50
            /\ \A i \in 1..(Len(EmbeddedPaths) - 1) : at(i) < at(i + 1)
            /\ Len(notices) > 0 <=> Len(full) > 50
            /\ \A i \in 1..Len(notices) :
                  notices[i] = "S Pokazano 50 iz " \o ToString(Len(full))
                                   \o " faylov (ostalnye skryty)\n"

\* C14 witness: a project of more than 50 files, all readable: 50 entries
\* are embedded and the notice is in the section
C14_Witness ==
    /\ pc = "exited"
    /\ Len(file_paths) > 50
    /\ Len(EmbeddedPaths) = 50
    /\ \E i \in 1..Len(FileSection) : IsNotice(FileSection[i])

\* C15: a run whose root path is missing or is not a directory fails before
\* any traversal: it ends with a non-zero exit code and prints no document.
C15_InvalidRootFails ==
    pc = "exited" /\ path_kind \in {"missing", "file"}
        => exit_code # 0 /\ document = ""

\* C16: in a run with --no-truncate the content of every embedded file is the
\* full text of the file, and no truncation marker is in the document.
C16_NoTruncateFullText ==
    pc = "exited" /\ no_truncate
        => /\ \A i \in 1..Len(file_infos) :
                 file_infos[i] # <<>>
                     => file_infos[i][1].content
                            = read_file(file_texts, file_infos[i][1].relative_path).text
           /\ ~Contains(document, MarkerPrefix)

\* C19: in the file section of the document a rule of 40 dashes stands only
\* between two embedded entries: the part before it and the part after it
\* are entries, so no rule follows the last entry, none precedes the first
\* and no two rules are adjacent.
C19_RulesBetweenEntries ==
    pc = "exited"
        => \A i \in 1..Len(FileSection) :
              IsRule(FileSection[i])
                  => /\ 1 < i /\ i < Len(FileSection)
                     /\ IsEntry(FileSection[i - 1])
                     /\ IsEntry(FileSection[i + 1])

---------------------------------------------------------------------------
(* Claims about the default rules and about build_tree *)

\* C18: with the default rule sets and no custom filters, _should_exclude is
\* false for a regular file named pyproject.toml, README.md or .env.example,
\* and for a regular file whose base name is in the CRITICAL or the HIGH
\* name set of the classifier, in whatever directory it lies.
C18_KeyFilesKept ==
    /\ pc = "checked"
    /\ custom_filters = <<>>
    /\ arg_path \in fs
    /\ PathName(arg_path) \in
           {"pyproject.toml", "README.md", ".env.example"}
               \cup CriticalNames \cup HighNames
    => ~excluded

\* C18 witness: _should_exclude has returned False for the regular file
\* .env.example, and True for a directory .env and for Pipfile.lock
C18_Witness ==
    /\ pc = "checked"
    /\ custom_filters = <<>>
    /\ arg_path \in fs
    /\ PathName(arg_path) = ".env.example"
    /\ ~excluded
    /\ should_exclude({".env/keep.py"}, root, <<>>, AbsPath(root, ".env"))
    /\ should_exclude({"Pipfile.lock"}, root, <<>>, AbsPath(root, "Pipfile.lock"))

\* the lines build_tree appended
TreeLines == IF tree = "" THEN <<>> ELSE Split(tree, "\n")

\* a line of a child of the node build_tree was called for
IsChildLine(line) == StartsWith(line, "|-- ") \/ StartsWith(line, "+-- ")

\* the child lines among the first j lines
ChildLinesUpTo(j) == Cardinality({m \in 1..j : IsChildLine(TreeLines[m])})

NoDuplicates(xs) == \A i, j \in 1..Len(xs) : i # j => xs[i] # xs[j]

\* C21: after the build step has processed the collected files, which are
\* distinct, the children list of every key of the structure has no name
\* twice: a sub-directory shared by several files is registered once under
\* its parent, and each file once under its directory.
C21_NoDuplicateChildren ==
    pc = "rendered" =>
        LET structure == BuildStructure(all_files, root)
        IN  /\ NoDuplicates(all_files)
            /\ \A key \in DOMAIN structure : NoDuplicates(structure[key])

\* C21 witness: two files of src/core and one of src/zeta have been
\* processed; src has the children core and zeta, core once, and src/core
\* has its two files
C21_Witness ==
    /\ pc = "rendered"
    /\ fs = {"src/core/node.py", "src/core/util.py", "src/zeta/z.py"}
    /\ LET structure == BuildStructure(all_files, root)
       IN  /\ Len(structure["src"]) = 2
           /\ \E i \in 1..2 : structure["src"][i] = "core"
           /\ Len(structure["src/core"]) = 2

---------------------------------------------------------------------------
(* Claims about the FileInfo records and the character marker *)

\* C22: for every file build embeds, the priority of its FileInfo record is
\* the tier detect_file_priority gave the file when prioritize_files ordered
\* the list, wherever the project root lies.
C22_OneTierPerBuild ==
    pc = "built" =>
        \A i \in 1..Len(file_infos) :
            file_infos[i] # <<>>
                => /\ file_infos[i][1].relative_path = prioritized[i]
                   /\ file_infos[i][1].priority
                          = detect_file_priority(prioritized[i])

\* C23: whenever truncate_content has appended the character marker, the
\* number of hidden characters the marker states is not negative: what stands
\* after the first max_chars characters of the result is the marker with a
\* number from 0 to len(content).
C23_HiddenCountNonNegative ==
    pc = "truncated" /\ EndsWith(result, " simvolov skryto ...]")
        => \E n \in 0..Len(content) :
              SubSeq(result, max_chars + 1, Len(result))
                  = "\n[... fayl obrezan, " \o ToString(n)
                        \o " simvolov skryto ...]"

===========================================================================
